---------------------------- MODULE Spec2Model ----------------------------
(***************************************************************************)
(* NIFTY 500 data pipeline: the ticker fetcher (fetch_tickers.py), the     *)
(* bulk downloader (download_data.py), the data cleaner (clean_data.py)    *)
(* and the orchestrator (main.py).                                         *)
(*                                                                         *)
(* A ticker is a sequence of tokens; the provider suffix ".NS" is one      *)
(* token, so appending and str.replace('.NS', '') are computed on the      *)
(* token sequence.  A data frame is a sequence of rows; a cell of a price  *)
(* or volume column is None (NaN) or a value.                              *)
(*                                                                         *)
(* Spec          the orchestrator (main.py) driving the three stages over  *)
(*               a persistent file system, one process invocation after    *)
(*               another.                                                  *)
(* SpecDownload  one NIFTY500Downloader instance whose download_all is     *)
(*               called by a client, possibly more than once.              *)
(* SpecClean     one cleaning run of a NIFTY500DataCleaner over whatever   *)
(*               raw file is on disk.                                      *)
(* SpecRerun     cleaning runs one after the other over the same files.    *)
(* SpecTicker    the full pipeline from the end of fetch_tickers through   *)
(*               the download stage, over symbols that may hold ".NS".     *)
(***************************************************************************)
EXTENDS Integers, Sequences, FiniteSets, TLC

\* ----------------------------------------------------------------- bounds
\* Largest max_retries the command line is given.
MaxRetries == 3
\* Process invocations of main.py over one file system.
MaxInvocations == 2
\* Longest ticker list a client passes to download_all.
MaxTickers == 2
\* download_all calls a client makes on one downloader instance.
MaxRuns == 2
\* Rows of the raw file a cleaning run loads.
MaxRows == 2
\* Trading dates in a raw file, numbered from 1.
MaxDate == 2

\* ------------------------------------------------------------ value sets
\* The max_retries values a downloader is built with: no attempt at all, a
\* single attempt, and the most the bound allows.
RetryArgs == { 0, 1, MaxRetries }

NS == ".NS"

\* Python's None or a value; an absent file or a file's contents.
None == <<>>
Some(x) == << x >>
NoFile == <<>>
File(x) == << x >>

\* Raw identifiers a network source can list.
RawIds == { <<"A">>, <<"B">> }

RECURSIVE SeqsUpTo(_, _)
SeqsUpTo(S, n) ==
    IF n = 0 THEN { <<>> }
    ELSE LET shorter == SeqsUpTo(S, n - 1)
         IN  shorter \cup { Append(s, x) : s \in shorter, x \in S }

NoDup(s) == \A i, j \in 1..Len(s) : i # j => s[i] # s[j]

\* Series.dropna().unique().tolist(): a duplicate-free list, possibly empty.
SourceLists == { s \in SeqsUpTo(RawIds, Cardinality(RawIds)) : NoDup(s) }

\* What one query of a network source does: it raises, or it yields a list.
SourceOutcomes == { [error |-> TRUE, list |-> <<>>] }
                  \cup { [error |-> FALSE, list |-> l] : l \in SourceLists }

\* The provider's answers to one history() call: an exception, an empty
\* frame, or a frame of rows indexed by date.  A cell is None (NaN) or a
\* value.
\* One daily bar of the provider: a date and the OHLCV cells, each a value.
Bar(d, c) ==
    [ Date |-> d, Open |-> Some(c - 1), High |-> Some(c + 1),
      Low |-> Some(c - 1), Close |-> Some(c), Volume |-> Some(100) ]
ProviderFrames == { << Bar(1, 10) >>, << Bar(1, 10), Bar(2, 11) >> }
ProviderOutcomes == { [kind |-> "error", frame |-> <<>>],
                      [kind |-> "empty", frame |-> <<>>] }
                    \cup { [kind |-> "data", frame |-> f] : f \in ProviderFrames }

Stages == { "all", "fetch", "download", "clean" }

VARIABLES
    \* ---- fetch_tickers.py: one NIFTY500Fetcher
    fpc,            \* position in fetch_tickers
    f_tickers,      \* self.tickers
    f_log,          \* the sources queried, in order, with what each yielded
    f_result,       \* the list fetch_tickers returned
    \* ---- download_data.py: one NIFTY500Downloader
    dpc,            \* position in download_all / download_ticker
    max_retries,    \* self.max_retries
    stats,          \* self.stats
    tickers,        \* download_all's argument
    idx,            \* position of the for loop in tickers
    attempt,        \* download_ticker's loop variable
    all_data,       \* download_all's list of frames
    combined,       \* the frame download_all returned
    invoked,        \* the tickers download_ticker was called for in this run
    answers,        \* the provider's last answer to each of them
    d_log,          \* the provider calls and sleeps of the latest loop iteration
    runs,           \* download_all calls completed on this instance
    \* ---- clean_data.py: one NIFTY500DataCleaner
    cpc,            \* position in the cleaning sequence
    c_df,           \* df, the frame handed from one cleaning step to the next
    prev,           \* the frame the latest cleaning step was given
    quality_metrics,\* self.quality_metrics
    \* ---- main.py: the process and the file system
    ppc,            \* position of main()
    stage,          \* --stage
    arg_retries,    \* --max-retries
    trace,          \* this invocation's stage events
    exit_code,      \* what main() returned
    raised,         \* the exception on its way to main(), None when there is none
    invocations,    \* invocations started so far
    ticker_file,    \* data/raw/nifty500_tickers.csv and .json
    raw_file,       \* data/raw/nifty500_raw_data.csv
    report_file,    \* data/reports/download_summary.json
    failed_file,    \* data/reports/failed_tickers.csv
    master_file,    \* data/processed/nifty500_master.csv
    pivot_files,    \* data/processed/nifty500_close_prices.csv, nifty500_volumes.csv
    quality_file    \* 'metrics' of data/reports/data_quality_report.json

fvars == << fpc, f_tickers, f_log, f_result >>
dvars == << dpc, max_retries, stats, tickers, idx, attempt, all_data, combined,
            invoked, answers, d_log, runs >>
cvars == << cpc, c_df, prev, quality_metrics >>
mvars == << ppc, stage, arg_retries, trace, exit_code, invocations >>
pvars == << mvars, raised >>
fsvars == << ticker_file, raw_file, report_file, failed_file, master_file,
            pivot_files, quality_file >>
vars == << fvars, dvars, cvars, pvars, fsvars >>


\* ---------------------------------------------------------------- helpers
\* An exception: its type and the script its message tells the user to run
\* first ("" when the message names none).
Err(type, run_first) == Some([ type |-> type, run_first |-> run_first ])

RECURSIVE Pow2(_)
Pow2(n) == IF n = 0 THEN 1 ELSE 2 * Pow2(n - 1)

RECURSIVE Concat(_)
\* pd.concat(frames, ignore_index=True): the frames' rows, in list order.
Concat(frames) ==
    IF frames = <<>> THEN <<>> ELSE Head(frames) \o Concat(Tail(frames))

Last(q) == q[Len(q)]
Range(q) == { q[i] : i \in DOMAIN q }
Max(S) == CHOOSE x \in S : \A y \in S : y <= x
Min(S) == CHOOSE x \in S : \A y \in S : x <= y

RECURSIVE Take(_, _, _)
Take(d, S, i) ==
    IF i > Len(d) THEN <<>>
    ELSE (IF i \in S THEN << d[i] >> ELSE <<>>) \o Take(d, S, i + 1)

\* The rows of d at the positions in S, in their order in d.
RowsAt(d, S) == Take(d, S, 1)

\* Mutant: no list counts as empty.
FalsyNever(l) == FALSE

\* Python's truth value of a list: `not l` is true of the empty list only.
Falsy(l) == l = <<>>

\* ------------------------------------------------------- fetch_tickers.py
\* The hardcoded list of major stocks, abbreviated to its first two entries.
major_stocks == << <<"RELIANCE">>, <<"TCS">> >>

\* Mutant: the suffix is appended only to a symbol that does not end in it.
FormatTickerIfMissing(t) == IF t # <<>> /\ t[Len(t)] = NS THEN t ELSE t \o << NS >>

\* f"{ticker}.NS"
FormatTicker(t) == Append(t, NS)

FormatTickers(l) == [i \in 1..Len(l) |-> FormatTicker(l[i])]

LogEntry(src, err, list) == [src |-> src, error |-> err, list |-> list]

\* `if not self.tickers:` before the Wikipedia fallback.
NeedWikipedia(t) == Falsy(t)

\* Mutant: the hardcoded list replaces whatever was fetched.
NeedHardcodedAlways(t) == TRUE

\* `if not self.tickers:` before the hardcoded list.
NeedHardcoded(t) == Falsy(t)

\* `if not self.tickers: raise ValueError(...)`.
AllSourcesFailed(t) == Falsy(t)

\* NIFTY500Fetcher.__init__
FetcherInit ==
    /\ fpc = "idle"
    /\ f_tickers = <<>>
    /\ f_log = <<>>
    /\ f_result = <<>>

\* self.tickers = self.fetch_from_nse_api(): any exception is caught inside
\* and the method returns [].
FetchFromNseApi ==
    /\ fpc = "nse"
    /\ \E o \in SourceOutcomes :
         /\ f_tickers' = o.list
         /\ f_log' = Append(f_log, LogEntry("nse", o.error, o.list))
    /\ fpc' = "wiki"
    /\ UNCHANGED << f_result, dvars, pvars, cvars, fsvars >>

\* if not self.tickers: time.sleep(2); self.tickers = self.fetch_from_wikipedia()
FetchFromWikipedia ==
    /\ fpc = "wiki"
    /\ IF NeedWikipedia(f_tickers)
       THEN \E o \in SourceOutcomes :
              /\ f_tickers' = o.list
              /\ f_log' = f_log \o << LogEntry("sleep", FALSE, <<>>),
                                     LogEntry("wiki", o.error, o.list) >>
       ELSE UNCHANGED << f_tickers, f_log >>
    /\ fpc' = "hardcoded"
    /\ UNCHANGED << f_result, dvars, pvars, cvars, fsvars >>

\* if not self.tickers: self.tickers = self.use_hardcoded_list()
UseHardcodedList ==
    /\ fpc = "hardcoded"
    /\ IF NeedHardcoded(f_tickers)
       THEN /\ f_tickers' = major_stocks
            /\ f_log' = Append(f_log, LogEntry("hardcoded", FALSE, major_stocks))
       ELSE UNCHANGED << f_tickers, f_log >>
    /\ fpc' = "finish"
    /\ UNCHANGED << f_result, dvars, pvars, cvars, fsvars >>

\* The end of fetch_tickers: raise if the list is still empty, else format
\* every ticker with the .NS suffix and return.
FetchTickersFinish ==
    /\ fpc = "finish"
    /\ IF AllSourcesFailed(f_tickers)
       THEN /\ fpc' = "raised"
            /\ raised' = Err("ValueError", "")
            /\ UNCHANGED f_result
       ELSE /\ fpc' = "returned"
            /\ f_result' = FormatTickers(f_tickers)
            /\ UNCHANGED raised
    /\ UNCHANGED << f_tickers, f_log, dvars, mvars, cvars, fsvars >>

FetcherNext ==
    \/ FetchFromNseApi
    \/ FetchFromWikipedia
    \/ UseHardcodedList
    \/ FetchTickersFinish

\* ------------------------------------------------------- download_data.py
\* The tickers a client hands to download_all: resolver output of the
\* network sources.
Tickers == { FormatTicker(r) : r \in RawIds }
TickerLists == SeqsUpTo(Tickers, MaxTickers)

\* self.stats as __init__ builds it (download_start, a timestamp, left out;
\* download_end is None until a run sets it).
FreshStats ==
    [ total_tickers |-> 0, successful |-> 0, failed |-> 0,
      failed_tickers |-> <<>>, download_end |-> FALSE ]

\* ticker.replace('.NS', ''): every occurrence of the suffix is removed.
StripSuffix(t) == SelectSeq(t, LAMBDA c : c # NS)

\* The frame download_ticker returns on success: the provider's rows, the
\* date index made a column, tagged with the stripped ticker.
Normalize(t, frame) ==
    [ i \in 1..Len(frame) |->
        [ Date |-> frame[i].Date, Ticker |-> StripSuffix(t),
          Open |-> frame[i].Open, High |-> frame[i].High,
          Low |-> frame[i].Low, Close |-> frame[i].Close,
          Volume |-> frame[i].Volume ] ]

\* A provider call (n its attempt number, out what it did), a backoff sleep
\* (n its seconds) or the rate-limiting sleep of download_all.
Event(ev, t, n, out) == [ev |-> ev, ticker |-> t, n |-> n, out |-> out]

\* Mutant: the same delay before every retry.
BackoffFixed(a) == 1

\* `time.sleep(2 ** attempt)`: the seconds slept after the failed attempt a.
Backoff(a) == Pow2(a)

\* Mutant: gives up one attempt early.
RetryLeftEarly(a, m) == a < m - 2

\* `if attempt < self.max_retries - 1:` sleep and try again, else give up.
RetryLeft(a, m) == a < m - 1

\* `if df is not None and not df.empty:`
IsSuccess(df) == df # None /\ df[1] # <<>>

\* NIFTY500Downloader.__init__(max_retries=m)
DownloaderInit(m) ==
    /\ dpc = "ready"
    /\ max_retries = m
    /\ stats = FreshStats
    /\ tickers = <<>>
    /\ idx = 1
    /\ attempt = 0
    /\ all_data = <<>>
    /\ combined = <<>>
    /\ invoked = <<>>
    /\ answers = <<>>
    /\ d_log = <<>>
    /\ runs = 0

\* The head of download_all(ts): set total_tickers, start an empty frame
\* list, enter the for loop.  self.stats is otherwise left as it is.
DownloadAllBegin(st, ts) ==
    /\ stats' = [st EXCEPT !.total_tickers = Len(ts)]
    /\ tickers' = ts
    /\ all_data' = <<>>
    /\ idx' = 1
    /\ attempt' = 0
    /\ combined' = <<>>
    /\ invoked' = <<>>
    /\ answers' = <<>>
    /\ d_log' = <<>>
    /\ dpc' = "loop"

\* `for ticker in tickers: df = self.download_ticker(ticker)`: enter
\* download_ticker for the next ticker of the list.
DownloadTickerEnter ==
    /\ dpc = "loop"
    /\ idx <= Len(tickers)
    /\ invoked' = Append(invoked, tickers[idx])
    /\ d_log' = <<>>
    /\ attempt' = 0
    /\ dpc' = "attempt"
    /\ UNCHANGED << max_retries, stats, tickers, idx, all_data, combined,
                    answers, runs, fvars, pvars, cvars, fsvars >>

\* Mutant: a failed ticker ends the batch.
ContinueAfterAbort(df, i, n) == IF IsSuccess(df) THEN i + 1 ELSE n + 1

\* Where the for loop of download_all goes after the iteration at index i
\* whose download_ticker returned df: on to the next ticker, whatever df is.
ContinueAfter(df, i, n) == i + 1

\* The rest of the for body once download_ticker returned df after the
\* provider's answer o: count the ticker as successful or failed, then the
\* rate-limiting sleep.
LoopBody(df, o, log) ==
    /\ IF IsSuccess(df)
       THEN /\ all_data' = Append(all_data, df[1])
            /\ stats' = [stats EXCEPT !.successful = @ + 1]
       ELSE /\ all_data' = all_data
            /\ stats' = [stats EXCEPT !.failed = @ + 1,
                                      !.failed_tickers = Append(@, tickers[idx])]
    /\ answers' = Append(answers, o)
    /\ d_log' = Append(log, Event("rate", tickers[idx], 0, ""))
    /\ idx' = ContinueAfter(df, idx, Len(tickers))
    /\ attempt' = 0
    /\ dpc' = "loop"

\* Mutant: an empty frame is retried like an exception.
AfterCallRetryEmpty(kind, a, m) ==
    CASE kind = "data" -> "return_df"
      [] OTHER -> IF RetryLeft(a, m) THEN "retry" ELSE "return_none"

\* What download_ticker does after a provider call of attempt a that ended
\* as kind: return the frame; return None for an empty frame; on an
\* exception sleep and retry while attempts are left, else return None.
AfterCall(kind, a, m) ==
    CASE kind = "data" -> "return_df"
      [] kind = "empty" -> "return_none"
      [] kind = "error" -> IF RetryLeft(a, m) THEN "retry" ELSE "return_none"

\* Mutant: the retry loop runs one pass more than max_retries.
RangeExhaustedLate(a, m) == a > m

\* `for attempt in range(self.max_retries)` has no pass left for attempt a.
RangeExhausted(a, m) == a >= m

\* One pass of `for attempt in range(self.max_retries)` in download_ticker:
\* the provider call and what follows it, up to the next provider call or,
\* when download_ticker returns, the end of download_all's loop body.
DownloadTickerAttempt ==
    /\ dpc = "attempt"
    /\ IF RangeExhausted(attempt, max_retries)
       THEN \* range exhausted: the trailing `return None`
            LoopBody(None, [kind |-> "nocall", frame |-> <<>>], d_log)
       ELSE \E o \in ProviderOutcomes :
              LET t == tickers[idx]
                  called == Append(d_log, Event("call", t, attempt, o.kind))
                  todo == AfterCall(o.kind, attempt, max_retries)
              IN  CASE todo = "return_df" ->
                         LoopBody(Some(Normalize(t, o.frame)), o, called)
                    [] todo = "return_none" ->
                         LoopBody(None, o, called)
                    [] todo = "retry" ->
                         /\ d_log' = Append(called,
                                        Event("backoff", t, Backoff(attempt), ""))
                         /\ attempt' = attempt + 1
                         /\ UNCHANGED << dpc, idx, all_data, stats, answers >>
    /\ UNCHANGED << max_retries, tickers, combined, invoked, runs,
                    fvars, pvars, cvars, fsvars >>

\* After the loop: set download_end, concatenate the frames (an empty
\* DataFrame when there is none) and return.
DownloadAllReturn ==
    /\ dpc = "loop"
    /\ idx > Len(tickers)
    /\ stats' = [stats EXCEPT !.download_end = TRUE]
    /\ combined' = IF all_data # <<>> THEN Concat(all_data) ELSE <<>>
    /\ runs' = runs + 1
    /\ dpc' = "returned"
    /\ UNCHANGED << max_retries, tickers, idx, attempt, all_data, invoked,
                    answers, d_log,
                    fvars, pvars, cvars, fsvars >>

\* A client calls download_all(ts) on the instance: its first run, or a
\* further run after an earlier one returned.
CallDownloadAll ==
    /\ dpc \in { "ready", "returned" }
    /\ runs < MaxRuns
    /\ \E ts \in TickerLists : DownloadAllBegin(stats, ts)
    /\ UNCHANGED << max_retries, runs, fvars, pvars, cvars, fsvars >>

DownloaderNext ==
    \/ DownloadTickerEnter
    \/ DownloadTickerAttempt
    \/ DownloadAllReturn

\* ----------------------------------------------------------- clean_data.py
\* The columns a cell of which can be null (NaN) in a loaded frame.
PriceCols == << "Open", "High", "Low", "Close" >>
ValueCols == PriceCols \o << "Volume" >>

\* pandas comparisons: a comparison with NaN is False.
Lt(x, y) == x # None /\ y # None /\ x[1] < y[1]
Ge(x, y) == x # None /\ y # None /\ x[1] >= y[1]

\* Python's order of the Ticker strings the raw file can hold.
TickerOrder == << <<"A">>, <<"B">>, <<"RELIANCE">>, <<"TCS">> >>
Rank(t) == CHOOSE i \in DOMAIN TickerOrder : TickerOrder[i] = t

\* The OHLCV cells of one raw row.
Cells(o, h, l, c, v) ==
    [ Open |-> o, High |-> h, Low |-> l, Close |-> c, Volume |-> v ]

\* What a row of a raw file can look like: a clean bar, a gap (every cell
\* null), a negative close, a negative open, a negative volume as its only
\* defect, high and low transposed (with a close above both), open and high
\* missing, open missing with a close above the high.
RowShapes ==
    { Cells(Some(5), Some(8), Some(5), Some(6), Some(100)),
      Cells(None, None, None, None, None),
      Cells(Some(5), Some(8), Some(5), Some(-1), Some(100)),
      Cells(Some(-1), Some(8), Some(5), Some(6), Some(100)),
      Cells(Some(10), Some(13), Some(10), Some(13), Some(-50)),
      Cells(Some(5), Some(5), Some(8), Some(9), Some(100)),
      Cells(None, None, Some(5), Some(6), Some(100)),
      Cells(None, Some(8), Some(5), Some(9), Some(100)) }

\* The rows and frames pd.read_csv can load: Date and Ticker are never null;
\* rows come in any order and a (Date, Ticker) pair can occur again.
RawRows ==
    { [ Date |-> d, Ticker |-> t ] @@ c :
        d \in 1..MaxDate, t \in RawIds, c \in RowShapes }
RawFrames == SeqsUpTo(RawRows, MaxRows)

\* self.quality_metrics as __init__ builds it (average_years_of_data, a
\* float of day differences, left out).
FreshMetrics ==
    [ initial_rows |-> 0, final_rows |-> 0, duplicates_removed |-> 0,
      missing_values_filled |-> 0, tickers_processed |-> 0,
      date_range |-> None, data_quality_score |-> 0 ]

\* subset=['Date', 'Ticker']
KeyOf(r) == << r.Date, r.Ticker >>

\* Mutant: nothing is a duplicate.
DuplicatedNever(d, i) == FALSE

\* Mutant: keep='first', an earlier row has the same key.
DuplicatedFirst(d, i) == \E j \in 1..(i - 1) : KeyOf(d[j]) = KeyOf(d[i])

\* DataFrame.duplicated(subset, keep='last') at row i: a later row has the
\* same key.
Duplicated(d, i) == \E j \in (i + 1)..Len(d) : KeyOf(d[j]) = KeyOf(d[i])

\* Mutant: the first of the rows kept is dropped as well.
DropDuplicatesOffByOne(d) ==
    LET kept == RowsAt(d, { i \in DOMAIN d : ~Duplicated(d, i) })
    IN  IF kept = <<>> THEN <<>> ELSE Tail(kept)

\* df.drop_duplicates(subset=['Date', 'Ticker'], keep='last')
DropDuplicates(d) == RowsAt(d, { i \in DOMAIN d : ~Duplicated(d, i) })

\* Mutant: orders by Date first.
RowLessByDate(a, b) ==
    \/ a.Date < b.Date
    \/ a.Date = b.Date /\ Rank(a.Ticker) < Rank(b.Ticker)

\* The order of sort_values(['Ticker', 'Date']).
RowLess(a, b) ==
    \/ Rank(a.Ticker) < Rank(b.Ticker)
    \/ a.Ticker = b.Ticker /\ a.Date < b.Date

RECURSIVE Insert(_, _)
Insert(sorted, r) ==
    IF sorted = <<>> THEN << r >>
    ELSE IF RowLess(r, Head(sorted)) THEN << r >> \o sorted
    ELSE << Head(sorted) >> \o Insert(Tail(sorted), r)

RECURSIVE SortValues(_)
\* df.sort_values(['Ticker', 'Date']): rows with equal keys keep their order.
SortValues(d) ==
    IF d = <<>> THEN <<>>
    ELSE Insert(SortValues(SubSeq(d, 1, Len(d) - 1)), Last(d))

\* Mutant: one group holds every row.
SameGroupAll(a, b) == TRUE

\* groupby('Ticker'): two rows are in one group.
SameGroup(a, b) == a.Ticker = b.Ticker

\* df.groupby('Ticker')[col].ffill(): a null cell takes the value of the
\* nearest row above it, in its group, whose cell is not null.
Ffill(d, col) ==
    [ i \in DOMAIN d |->
        IF d[i][col] # None THEN d[i]
        ELSE LET src == { j \in 1..(i - 1) :
                            SameGroup(d[j], d[i]) /\ d[j][col] # None }
             IN  IF src = {} THEN d[i]
                 ELSE [ d[i] EXCEPT ![col] = d[Max(src)][col] ] ]

RECURSIVE FfillCols(_, _)
\* for col in price_columns: df[col] = ...ffill()
FfillCols(d, cols) ==
    IF cols = <<>> THEN d ELSE FfillCols(Ffill(d, Head(cols)), Tail(cols))

\* df['Volume'].fillna(0)
FillVolume(d) ==
    [ i \in DOMAIN d |->
        IF d[i].Volume = None THEN [ d[i] EXCEPT !.Volume = Some(0) ] ELSE d[i] ]

\* Mutant: a row with a null Open is dropped as well.
DropNullOpenClose(d) == SelectSeq(d, LAMBDA r : r.Close # None /\ r.Open # None)

\* df.dropna(subset=['Close'])
DropNullClose(d) == SelectSeq(d, LAMBDA r : r.Close # None)

RECURSIVE NullCount(_)
\* df.isnull().sum().sum(): the null cells of the frame, over all columns.
NullCount(d) ==
    IF d = <<>> THEN 0
    ELSE Cardinality({ c \in Range(ValueCols) : Head(d)[c] = None })
         + NullCount(Tail(d))

\* The frame handle_missing_values returns.
Repair(d) == DropNullClose(FillVolume(FfillCols(SortValues(d), PriceCols)))

\* Mutant: only the Close column is checked for negative prices.
NegativeCheckedCloseOnly == << "Close" >>

\* price_cols of validate_data.
NegativeChecked == PriceCols

RECURSIVE RemoveNegative(_, _)
\* for col in price_cols: when the column holds a negative value, keep the
\* rows with df[col] >= 0 (a null cell does not pass that comparison).
RemoveNegative(d, cols) ==
    IF cols = <<>> THEN d
    ELSE LET col == Head(cols)
             kept == IF \E i \in DOMAIN d : Lt(d[i][col], Some(0))
                     THEN SelectSeq(d, LAMBDA r : Ge(r[col], Some(0)))
                     ELSE d
         IN  RemoveNegative(kept, Tail(cols))

\* Mutant: a row with a negative volume is removed.
ClampVolumeDrop(d) == SelectSeq(d, LAMBDA r : ~Lt(r.Volume, Some(0)))

\* df.loc[df['Volume'] < 0, 'Volume'] = 0
ClampVolume(d) ==
    [ i \in DOMAIN d |->
        IF Lt(d[i].Volume, Some(0)) THEN [ d[i] EXCEPT !.Volume = Some(0) ]
        ELSE d[i] ]

\* Mutant: a row with High < Low gets its Low copied into High.
SwapHighLowCopy(d) ==
    [ i \in DOMAIN d |->
        IF Lt(d[i].High, d[i].Low) THEN [ d[i] EXCEPT !.High = d[i].Low ]
        ELSE d[i] ]

\* mask = df['High'] < df['Low'];
\* df.loc[mask, ['High', 'Low']] = df.loc[mask, ['Low', 'High']].values
SwapHighLow(d) ==
    [ i \in DOMAIN d |->
        IF Lt(d[i].High, d[i].Low)
        THEN [ d[i] EXCEPT !.High = d[i].Low, !.Low = d[i].High ]
        ELSE d[i] ]

\* The frame validate_data returns (the close-outside-range check only logs).
Validate(d) == SwapHighLow(ClampVolume(RemoveNegative(d, NegativeChecked)))

\* Date.dt.dayofweek, .year and .month of trading date n: day n of a
\* January whose first day is a Monday.
DayOfWeek(n) == (n - 1) % 7
Year(n) == 2024 + (n - 1) \div 366
Month(n) == 1 + (n - 1) \div 31

\* The columns add_metadata_columns adds.
AddMetadata(d) ==
    [ i \in DOMAIN d |->
        d[i] @@ [ DayOfWeek |-> DayOfWeek(d[i].Date), Year |-> Year(d[i].Date),
                  Month |-> Month(d[i].Date), TransactionCostBps |-> 3 ] ]

\* max(self.quality_metrics['initial_rows'], 1)
Denominator(qm) == IF qm.initial_rows > 1 THEN qm.initial_rows ELSE 1

\* retention_rate and completeness of calculate_statistics, as fractions
\* num / den.
RetentionRate(qm) == [ num |-> qm.final_rows, den |-> Denominator(qm) ]
Completeness(qm) ==
    [ num |-> Denominator(qm) - qm.missing_values_filled, den |-> Denominator(qm) ]

\* The integer nearest to n / d, d > 0.
Round(n, d) == (2 * n + d) \div (2 * d)

\* round((retention_rate * 0.5 + completeness * 0.5) * 100, 2), in
\* hundredths of a point.
QualityScore(qm) ==
    Round(5000 * (RetentionRate(qm).num + Completeness(qm).num), Denominator(qm))

\* The 'date_range' entry of the metrics.
DateRange(d) ==
    LET dates == { d[i].Date : i \in DOMAIN d }
    IN  [ earliest |-> Min(dates), latest |-> Max(dates),
          total_days |-> Max(dates) - Min(dates),
          trading_days |-> Cardinality(dates) ]

\* df.pivot(index='Date', columns='Ticker', values=col): the cell of every
\* (Date, Ticker) pair of the frame.
Pivot(d, col) ==
    [ k \in { KeyOf(d[i]) : i \in DOMAIN d } |->
        d[CHOOSE i \in DOMAIN d : KeyOf(d[i]) = k][col] ]

\* df.pivot raises ValueError when a (Date, Ticker) pair occurs twice.
Pivotable(d) == \A i, j \in DOMAIN d : KeyOf(d[i]) = KeyOf(d[j]) => i = j

\* NIFTY500DataCleaner.__init__
CleanerInit ==
    /\ cpc = "load"
    /\ c_df = <<>>
    /\ prev = <<>>
    /\ quality_metrics = FreshMetrics

\* What load_raw_data does with the raw file: FileNotFoundError when it is
\* absent; pd.read_csv raises on the file an empty DataFrame was saved to
\* (no columns to parse).
RawLoadable(f) == f # NoFile /\ f[1] # <<>>

\* Mutant: the cleaner's message names the fetch script.
MissingRawFileFetch == Err("FileNotFoundError", "fetch_tickers.py")

\* load_raw_data's FileNotFoundError: "Raw data file not found: ...
\* Please run download_data.py first."
MissingRawFile == Err("FileNotFoundError", "download_data.py")

\* The exception load_raw_data raises for a raw file it cannot load.
LoadError(f) == IF f = NoFile THEN MissingRawFile ELSE Err("EmptyDataError", "")

\* df = cleaner.load_raw_data()
LoadRawData ==
    /\ cpc = "load"
    /\ IF RawLoadable(raw_file)
       THEN /\ c_df' = raw_file[1]
            /\ quality_metrics' =
                 [ quality_metrics EXCEPT !.initial_rows = Len(raw_file[1]) ]
            /\ cpc' = "dedupe"
            /\ UNCHANGED raised
       ELSE /\ cpc' = "raised"
            /\ raised' = LoadError(raw_file)
            /\ UNCHANGED << c_df, quality_metrics >>
    /\ prev' = <<>>
    /\ UNCHANGED << fvars, dvars, mvars, fsvars >>

\* df = cleaner.remove_duplicates(df)
RemoveDuplicates ==
    /\ cpc = "dedupe"
    /\ c_df' = DropDuplicates(c_df)
    /\ quality_metrics' =
         [ quality_metrics EXCEPT
             !.duplicates_removed = Len(c_df) - Len(DropDuplicates(c_df)) ]
    /\ prev' = c_df
    /\ cpc' = "sort"
    /\ UNCHANGED << fvars, dvars, pvars, fsvars >>

\* df = cleaner.sort_data(df)
SortData ==
    /\ cpc = "sort"
    /\ c_df' = SortValues(c_df)
    /\ prev' = c_df
    /\ cpc' = "missing"
    /\ UNCHANGED << quality_metrics, fvars, dvars, pvars, fsvars >>

\* df = cleaner.handle_missing_values(df): sort again, forward-fill the
\* price columns within each ticker, fill Volume with 0, drop the rows whose
\* Close is still null; record initial minus final null cells as filled.
HandleMissingValues ==
    /\ cpc = "missing"
    /\ c_df' = Repair(c_df)
    /\ quality_metrics' =
         [ quality_metrics EXCEPT
             !.missing_values_filled = NullCount(c_df) - NullCount(Repair(c_df)) ]
    /\ prev' = c_df
    /\ cpc' = "validate"
    /\ UNCHANGED << fvars, dvars, pvars, fsvars >>

\* df = cleaner.validate_data(df)
ValidateData ==
    /\ cpc = "validate"
    /\ c_df' = Validate(c_df)
    /\ prev' = c_df
    /\ cpc' = "metadata"
    /\ UNCHANGED << quality_metrics, fvars, dvars, pvars, fsvars >>

\* df = cleaner.add_metadata_columns(df)
AddMetadataColumns ==
    /\ cpc = "metadata"
    /\ c_df' = AddMetadata(c_df)
    /\ prev' = c_df
    /\ cpc' = "stats"
    /\ UNCHANGED << quality_metrics, fvars, dvars, pvars, fsvars >>

\* cleaner.calculate_statistics(df): final_rows and tickers_processed are
\* set first; on a frame without rows df['Date'].min() is NaT and its
\* strftime raises.
CalculateStatistics ==
    /\ cpc = "stats"
    /\ LET counted == [ quality_metrics EXCEPT
                          !.final_rows = Len(c_df),
                          !.tickers_processed =
                              Cardinality({ c_df[i].Ticker : i \in DOMAIN c_df }) ]
       IN  IF c_df = <<>>
           THEN /\ quality_metrics' = counted
                /\ cpc' = "raised"
                /\ raised' = Err("ValueError", "")
           ELSE /\ quality_metrics' =
                     [ counted EXCEPT
                         !.date_range = Some(DateRange(c_df)),
                         !.data_quality_score = QualityScore(counted) ]
                /\ cpc' = "save"
                /\ UNCHANGED raised
    /\ UNCHANGED << c_df, prev, fvars, dvars, mvars, fsvars >>

\* Mutant: the rows are appended to the file already there.
ToCsvAppend(old, d) == IF old = NoFile THEN File(d) ELSE File(old[1] \o d)

\* df.to_csv(master_path, index=False): the file is written anew.
ToCsv(old, d) == File(d)

\* cleaner.save_processed_data(df), cleaner.save_quality_report() and
\* cleaner.print_summary(): the master file is written before the pivots.
SaveProcessedData ==
    /\ cpc = "save"
    /\ master_file' = ToCsv(master_file, c_df)
    /\ IF Pivotable(c_df)
       THEN /\ pivot_files' = File([ close |-> Pivot(c_df, "Close"),
                                     volume |-> Pivot(c_df, "Volume") ])
            /\ quality_file' = File(quality_metrics)
            /\ cpc' = "done"
            /\ UNCHANGED raised
       ELSE /\ cpc' = "raised"
            /\ raised' = Err("ValueError", "")
            /\ UNCHANGED << pivot_files, quality_file >>
    /\ UNCHANGED << c_df, prev, quality_metrics, fvars, dvars, mvars,
                    ticker_file, raw_file, report_file, failed_file >>

CleanerNext ==
    \/ LoadRawData
    \/ RemoveDuplicates
    \/ SortData
    \/ HandleMissingValues
    \/ ValidateData
    \/ AddMetadataColumns
    \/ CalculateStatistics
    \/ SaveProcessedData

\* ----------------------------------------------------------------- main.py
\* No downloader has been constructed in this process.
NoDownloader ==
    /\ dpc = "none"
    /\ max_retries = 0
    /\ stats = FreshStats
    /\ tickers = <<>>
    /\ idx = 1
    /\ attempt = 0
    /\ all_data = <<>>
    /\ combined = <<>>
    /\ invoked = <<>>
    /\ answers = <<>>
    /\ d_log = <<>>
    /\ runs = 0

\* No cleaner has been constructed in this process.
NoCleaner ==
    /\ cpc = "none"
    /\ c_df = <<>>
    /\ prev = <<>>
    /\ quality_metrics = FreshMetrics

\* The stage main() runs first for a --stage value.
FirstStage(s) ==
    CASE s = "download" -> "s2"
      [] s = "clean" -> "s3"
      [] OTHER -> "s1"

\* load_tickers' FileNotFoundError: "Ticker file not found: ...
\* Please run fetch_tickers.py first."
MissingTickerFile == Err("FileNotFoundError", "fetch_tickers.py")

\* Mutant: main returns 0 from its except branch.
ExitOnErrorZero == Some(0)

\* main(): `except Exception as e: ... return 1`.
ExitOnError == Some(1)

\* Mutant: the full chain goes from stage 1 straight to stage 3.
AfterStageSkip(s, next) == IF s = "all" THEN "s3" ELSE "idle"

\* Where run_full_pipeline goes after a stage completed; a single-stage
\* invocation returns 0 instead.
AfterStage(s, next) == IF s = "all" THEN next ELSE "idle"

\* main() returns 0 when the selected stage(s) returned.
ExitAfter(s, next) == IF AfterStage(s, next) = "idle" THEN Some(0) ELSE None

\* success_rate of the summary in hundredths of a percent, rounded to the
\* two decimals the report prints.
SuccessRate(succ, total) == (2 * 10000 * succ + total) \div (2 * total)

\* The summary save_download_report writes.
Summary(st) ==
    [ total_tickers |-> st.total_tickers,
      successful_downloads |-> st.successful,
      failed_downloads |-> st.failed,
      success_rate |-> SuccessRate(st.successful, st.total_tickers),
      failed_tickers |-> st.failed_tickers ]

\* main(): parse the arguments, build the pipeline object, dispatch on
\* --stage.  A new process holds no fetcher or downloader of an earlier one.
Main ==
    /\ ppc = "idle"
    /\ invocations < MaxInvocations
    /\ \E s \in Stages, r \in RetryArgs :
         /\ stage' = s
         /\ arg_retries' = r
         /\ ppc' = FirstStage(s)
    /\ invocations' = invocations + 1
    /\ trace' = <<>>
    /\ exit_code' = None
    /\ raised' = None
    /\ fpc' = "idle"
    /\ f_tickers' = <<>>
    /\ f_log' = <<>>
    /\ f_result' = <<>>
    /\ dpc' = "none"
    /\ max_retries' = 0
    /\ stats' = FreshStats
    /\ tickers' = <<>>
    /\ idx' = 1
    /\ attempt' = 0
    /\ all_data' = <<>>
    /\ combined' = <<>>
    /\ invoked' = <<>>
    /\ answers' = <<>>
    /\ d_log' = <<>>
    /\ runs' = 0
    /\ cpc' = "none"
    /\ c_df' = <<>>
    /\ prev' = <<>>
    /\ quality_metrics' = FreshMetrics
    /\ UNCHANGED fsvars

\* run_stage_1_fetch_tickers up to the call of fetcher.fetch_tickers().
RunStage1Start ==
    /\ ppc = "s1"
    /\ trace' = Append(trace, "s1_start")
    /\ fpc' = "nse"
    /\ ppc' = "s1_wait"
    /\ UNCHANGED << f_tickers, f_log, f_result, dvars, stage, arg_retries,
                    exit_code, raised, invocations, cvars, fsvars >>

\* run_stage_1_fetch_tickers after fetch_tickers: save_tickers and return,
\* or log the exception and re-raise it (through run_full_pipeline to main,
\* which returns 1).
RunStage1End ==
    /\ ppc = "s1_wait"
    /\ fpc \in { "returned", "raised" }
    /\ IF fpc = "returned"
       THEN /\ ticker_file' = File(f_result)
            /\ trace' = Append(trace, "s1_ok")
            /\ ppc' = AfterStage(stage, "s2")
            /\ exit_code' = ExitAfter(stage, "s2")
       ELSE /\ ticker_file' = ticker_file
            /\ trace' = Append(trace, "s1_fail")
            /\ ppc' = "idle"
            /\ exit_code' = ExitOnError
    /\ UNCHANGED << fvars, dvars, cvars, stage, arg_retries, invocations,
                    raised, raw_file, report_file, failed_file, master_file,
                    pivot_files, quality_file >>

\* run_stage_2_download_data up to the call of download_all: construct the
\* downloader, load_tickers (FileNotFoundError when the ticker file is
\* absent), enter download_all.
RunStage2Start ==
    /\ ppc = "s2"
    /\ max_retries' = arg_retries
    /\ runs' = 0
    /\ IF ticker_file = NoFile
       THEN /\ dpc' = "ready"
            /\ stats' = FreshStats
            /\ UNCHANGED << tickers, idx, attempt, all_data, combined,
                            invoked, answers, d_log >>
            /\ trace' = trace \o << "s2_start", "s2_fail" >>
            /\ ppc' = "idle"
            /\ exit_code' = ExitOnError
            /\ raised' = MissingTickerFile
       ELSE /\ DownloadAllBegin(FreshStats, ticker_file[1])
            /\ trace' = Append(trace, "s2_start")
            /\ ppc' = "s2_wait"
            /\ exit_code' = exit_code
            /\ raised' = raised
    /\ UNCHANGED << fvars, stage, arg_retries, invocations, cvars, fsvars >>

\* run_stage_2_download_data after download_all returned: save_raw_data,
\* save_download_report (failed_tickers.csv only when a ticker failed; the
\* success rate divides by total_tickers), print_summary, return.
RunStage2End ==
    /\ ppc = "s2_wait"
    /\ dpc = "returned"
    /\ raw_file' = File(combined)
    /\ failed_file' = IF stats.failed_tickers # <<>> THEN File(stats.failed_tickers)
                      ELSE failed_file
    /\ IF stats.total_tickers = 0
       THEN /\ report_file' = report_file
            /\ trace' = Append(trace, "s2_fail")
            /\ ppc' = "idle"
            /\ exit_code' = ExitOnError
            /\ raised' = Err("ZeroDivisionError", "")
       ELSE /\ report_file' = File(Summary(stats))
            /\ trace' = Append(trace, "s2_ok")
            /\ ppc' = AfterStage(stage, "s3")
            /\ exit_code' = ExitAfter(stage, "s3")
            /\ raised' = raised
    /\ UNCHANGED << fvars, dvars, cvars, stage, arg_retries, invocations,
                    ticker_file, master_file, pivot_files, quality_file >>

\* run_stage_3_clean_data up to load_raw_data: construct the cleaner.
RunStage3Start ==
    /\ ppc = "s3"
    /\ trace' = Append(trace, "s3_start")
    /\ cpc' = "load"
    /\ c_df' = <<>>
    /\ prev' = <<>>
    /\ quality_metrics' = FreshMetrics
    /\ ppc' = "s3_wait"
    /\ UNCHANGED << fvars, dvars, stage, arg_retries, exit_code, raised,
                    invocations, fsvars >>

\* run_stage_3_clean_data after the cleaning sequence: return the cleaned
\* frame (run_full_pipeline then returns its success summary and main
\* returns 0), or log the exception and re-raise it (main returns 1).
RunStage3End ==
    /\ ppc = "s3_wait"
    /\ cpc \in { "done", "raised" }
    /\ IF cpc = "done"
       THEN /\ trace' = Append(trace, "s3_ok")
            /\ exit_code' = Some(0)
       ELSE /\ trace' = Append(trace, "s3_fail")
            /\ exit_code' = ExitOnError
    /\ ppc' = "idle"
    /\ UNCHANGED << fvars, dvars, cvars, stage, arg_retries, invocations,
                    raised, fsvars >>

\* --------------------------------------------------------- specifications
NoProcess ==
    /\ ppc = "idle"
    /\ stage = "none"
    /\ arg_retries = 0
    /\ trace = <<>>
    /\ exit_code = None
    /\ raised = None
    /\ invocations = 0

EmptyFs ==
    /\ ticker_file = NoFile
    /\ raw_file = NoFile
    /\ report_file = NoFile
    /\ failed_file = NoFile
    /\ master_file = NoFile
    /\ pivot_files = NoFile
    /\ quality_file = NoFile

Init == FetcherInit /\ NoDownloader /\ NoCleaner /\ NoProcess /\ EmptyFs

Next ==
    \/ Main
    \/ RunStage1Start
    \/ FetcherNext
    \/ RunStage1End
    \/ RunStage2Start
    \/ DownloaderNext
    \/ RunStage2End
    \/ RunStage3Start
    \/ CleanerNext
    \/ RunStage3End

Spec == Init /\ [][Next]_vars

InitDownload ==
    /\ FetcherInit /\ NoCleaner /\ NoProcess /\ EmptyFs
    /\ \E m \in RetryArgs : DownloaderInit(m)

NextDownload == CallDownloadAll \/ DownloaderNext

SpecDownload == InitDownload /\ [][NextDownload]_vars

\* One download run of a fresh instance, as download_data.main makes it:
\* download_all is called once.  Every provider call returns and every
\* sleep ends, so the loop of download_all keeps taking its next step.
FirstDownloadAll == runs = 0 /\ CallDownloadAll

NextRun == FirstDownloadAll \/ DownloaderNext

SpecRun == InitDownload /\ [][NextRun]_vars /\ WF_vars(DownloaderNext)

\* One cleaning run (clean_data.main) over whatever raw file is on disk.
InitClean ==
    /\ FetcherInit /\ NoDownloader /\ NoProcess /\ CleanerInit
    /\ ticker_file = NoFile
    /\ raw_file \in { NoFile } \cup { File(f) : f \in RawFrames }
    /\ report_file = NoFile
    /\ failed_file = NoFile
    /\ master_file = NoFile
    /\ pivot_files = NoFile
    /\ quality_file = NoFile

\* clean_data.py is run again once a run has ended: a new cleaner over the
\* files as they are.
RunCleanerAgain ==
    /\ cpc \in { "done", "raised" }
    /\ cpc' = "load"
    /\ c_df' = <<>>
    /\ prev' = <<>>
    /\ quality_metrics' = FreshMetrics
    /\ raised' = None
    /\ UNCHANGED << fvars, dvars, mvars, fsvars >>

NextClean == CleanerNext

SpecClean == InitClean /\ [][NextClean]_vars

\* Cleaning runs one after the other over the same files.
NextRerun == CleanerNext \/ RunCleanerAgain

SpecRerun == InitClean /\ [][NextRerun]_vars

\* Symbols a source may list that hold the text ".NS" themselves: a listing
\* that is already suffixed ("A.NS") and one with the text inside ("A.NSB").
\* The sources are read without any check of the symbols.
SuffixedIds == { << "A", NS >>, << "A", NS, "B" >> }

\* The non-empty lists the primary source can answer over both kinds of
\* symbol.
ListedTickers ==
    { s \in SeqsUpTo(RawIds \cup SuffixedIds, MaxTickers) : NoDup(s) /\ s # <<>> }

\* The full pipeline at the end of fetch_tickers, the primary source having
\* answered a list of symbols; from there the tickers are formatted, saved,
\* loaded by the download stage and downloaded.
InitTicker ==
    /\ NoDownloader /\ NoCleaner /\ EmptyFs
    /\ \E l \in ListedTickers :
         /\ f_tickers = l
         /\ f_log = << LogEntry("nse", FALSE, l) >>
    /\ fpc = "finish"
    /\ f_result = <<>>
    /\ ppc = "s1_wait"
    /\ stage = "all"
    /\ arg_retries \in RetryArgs
    /\ trace = << "s1_start" >>
    /\ exit_code = None
    /\ raised = None
    /\ invocations = 1

NextTicker ==
    \/ FetchTickersFinish
    \/ RunStage1End
    \/ RunStage2Start
    \/ DownloaderNext
    \/ RunStage2End

SpecTicker == InitTicker /\ [][NextTicker]_vars

\* ------------------------------------------------------------------ claims
\* The sources fetch_tickers queried, in order (the sleep left out).
Queried == SelectSeq(f_log, LAMBDA e : e.src # "sleep")
SourceOrder == << "nse", "wiki", "hardcoded" >>
YieldedEmpty(src) == \E i \in DOMAIN f_log : f_log[i].src = src /\ f_log[i].list = <<>>

\* C1: whenever fetch_tickers returns, the returned list is non-empty, and
\* it raises only when the primary source, the secondary source and the
\* static list have all yielded an empty list.
C1_ReturnsNonEmpty ==
    /\ fpc = "returned" => f_result # <<>>
    /\ fpc = "raised" => \A src \in Range(SourceOrder) : YieldedEmpty(src)

\* fetch_tickers returned the static list after both network sources failed.
C1_Witness ==
    /\ fpc = "returned"
    /\ Len(Queried) = 3
    /\ f_result = FormatTickers(major_stocks)

\* C2: the sources are queried in the order primary, secondary, static
\* list; a source is queried only if every earlier one yielded an empty
\* list (or raised); the returned universe is the list of the first source
\* that yielded a non-empty one.
C2_FallbackOrder ==
    /\ Len(Queried) <= 3
    /\ \A i \in DOMAIN Queried : Queried[i].src = SourceOrder[i]
    /\ \A i, j \in DOMAIN Queried : i < j => Queried[i].list = <<>>
    /\ fpc = "returned" =>
         /\ Queried # <<>>
         /\ Last(Queried).list # <<>>
         /\ f_tickers = Last(Queried).list
         /\ f_result = FormatTickers(Last(Queried).list)

\* The primary source raised and the secondary source supplied the universe.
C2_Witness ==
    /\ fpc = "returned"
    /\ Len(Queried) = 2
    /\ Queried[1].error
    /\ Len(f_result) = 2

\* The provider calls of the latest loop iteration.
Calls(log) == SelectSeq(log, LAMBDA e : e.ev = "call")
AllErrored(log) == \A i \in DOMAIN Calls(log) : Calls(log)[i].out = "error"
\* download_ticker has returned for the ticker at idx - 1.
IterationDone == dpc \in { "loop", "returned" } /\ idx > 1
\* The answers that made their ticker a success.
DataAnswers == { i \in DOMAIN answers : answers[i].kind = "data" }

\* C4: for a ticker whose provider call raises on every attempt,
\* download_ticker makes exactly max_retries provider calls (attempts
\* 0 .. max_retries - 1) and returns None; download_all appends the ticker to
\* failed_tickers and adds no frame for it, and the returned dataset is the
\* concatenation of the frames of the successful tickers only.
C4_RetryExhaustion ==
    /\ (IterationDone /\ AllErrored(d_log)) =>
         /\ Len(Calls(d_log)) = max_retries
         /\ \A i \in DOMAIN Calls(d_log) : Calls(d_log)[i].n = i - 1
         /\ answers[idx - 1].kind # "data"
         /\ stats.failed_tickers # <<>>
         /\ Last(stats.failed_tickers) = tickers[idx - 1]
    /\ Len(all_data) = Cardinality(DataAnswers)
    /\ dpc = "returned" => combined = Concat(all_data)

\* A ticker failed after as many provider calls as the largest max_retries
\* allows, all of which raised.
C4_Witness ==
    /\ IterationDone
    /\ AllErrored(d_log)
    /\ max_retries = MaxRetries
    /\ Len(Calls(d_log)) = MaxRetries
    /\ Last(stats.failed_tickers) = tickers[idx - 1]

\* C5: an empty provider response fails the ticker at once: the call that
\* got it is the last provider call for the ticker, no backoff sleep follows
\* it (only the rate-limiting sleep of download_all), and the ticker is
\* recorded as failed.
C5_EmptyFailsAtOnce ==
    \A i \in DOMAIN d_log :
        (d_log[i].ev = "call" /\ d_log[i].out = "empty") =>
            /\ IterationDone
            /\ Len(d_log) = i + 1
            /\ d_log[i + 1].ev = "rate"
            /\ answers[idx - 1].kind = "empty"
            /\ stats.failed_tickers # <<>>
            /\ Last(stats.failed_tickers) = d_log[i].ticker

\* An empty response to the first attempt, with attempts left in the budget.
C5_Witness ==
    /\ IterationDone
    /\ max_retries >= 2
    /\ Len(d_log) = 2
    /\ d_log[1].ev = "call" /\ d_log[1].out = "empty" /\ d_log[1].n = 0

\* C6: download_all calls download_ticker once for every ticker of the
\* list, in list order, whatever the earlier tickers did, and returns: the
\* invoked tickers are always a prefix of the list, the whole list at the
\* return, and a run in progress can always take its next step.
C6_BatchNeverAborts ==
    /\ Len(invoked) <= Len(tickers)
    /\ invoked = SubSeq(tickers, 1, Len(invoked))
    /\ dpc = "loop" => Len(invoked) = idx - 1
    /\ dpc = "attempt" => Len(invoked) = idx
    /\ dpc = "returned" => invoked = tickers /\ Len(answers) = Len(tickers)
    /\ dpc \in { "loop", "attempt" } => ENABLED DownloaderNext

\* A run returned after its first ticker raised on every attempt and its
\* second got an empty response.
C6_Witness ==
    /\ dpc = "returned"
    /\ Len(tickers) = 2
    /\ invoked = tickers
    /\ answers[1].kind = "error"
    /\ answers[2].kind = "empty"

\* A completed run over a non-empty list in which every ticker got at least
\* one provider call.
ProperRun == dpc = "returned" /\ tickers # <<>> /\ max_retries >= 1

\* C7: after every completed download run, successful + failed equals
\* total_tickers and failed_tickers has `failed` entries.
C7_StatsAddUp ==
    ProperRun =>
        /\ stats.successful + stats.failed = stats.total_tickers
        /\ Len(stats.failed_tickers) = stats.failed

\* The requested identifier without its trailing suffix.
RawId(t) == SubSeq(t, 1, Len(t) - 1)

RECURSIVE ExpectedRows(_, _)
\* The provider's rows for the successful tickers, in list order, tagged
\* with their ticker.
ExpectedRows(ts, as) ==
    IF ts = <<>> THEN <<>>
    ELSE LET own == IF Head(as).kind = "data"
                    THEN [ i \in 1..Len(Head(as).frame) |->
                             [ Date |-> Head(as).frame[i].Date,
                               Ticker |-> RawId(Head(ts)),
                               Open |-> Head(as).frame[i].Open,
                               High |-> Head(as).frame[i].High,
                               Low |-> Head(as).frame[i].Low,
                               Close |-> Head(as).frame[i].Close,
                               Volume |-> Head(as).frame[i].Volume ] ]
                    ELSE <<>>
         IN  own \o ExpectedRows(Tail(ts), Tail(as))

RECURSIVE ExpectedFailed(_, _)
\* The tickers of the run that did not succeed, in list order.
ExpectedFailed(ts, as) ==
    IF ts = <<>> THEN <<>>
    ELSE (IF Head(as).kind = "data" THEN <<>> ELSE << Head(ts) >>)
         \o ExpectedFailed(Tail(ts), Tail(as))

\* C8: in a batch with mixed outcomes (a ticker that succeeded and one that
\* failed) the dataset download_all returns holds exactly the provider's
\* rows of the successful tickers, and the stats of the batch are its own:
\* total_tickers the length of the list, successful and failed the numbers
\* of successful and failed tickers, failed_tickers exactly the failed
\* tickers in their suffixed form.
C8_BatchResult ==
    (ProperRun /\ DataAnswers # {} /\ DataAnswers # DOMAIN answers) =>
        /\ combined = ExpectedRows(tickers, answers)
        /\ stats.total_tickers = Len(tickers)
        /\ stats.successful = Cardinality(DataAnswers)
        /\ stats.failed = Len(tickers) - Cardinality(DataAnswers)
        /\ stats.failed_tickers = ExpectedFailed(tickers, answers)

\* C9: a run in which no ticker succeeds returns an empty dataset with
\* failed = total_tickers and every input ticker in failed_tickers.
C9_ZeroSuccesses ==
    (ProperRun /\ DataAnswers = {}) =>
        /\ combined = <<>>
        /\ stats.failed = stats.total_tickers
        /\ Range(tickers) \subseteq Range(stats.failed_tickers)

\* C10: when the download run of stage 2 had zero successes (every ticker
\* got an empty response or raised on every attempt), stage 2 does not end
\* as completed, the cleaning stage is not started and main does not
\* return 0.
C10_ZeroSuccessFailsStage ==
    (/\ dpc = "returned"
     /\ answers # <<>>
     /\ \A i \in DOMAIN answers : answers[i].kind \in { "empty", "error" }) =>
        /\ "s2_ok" \notin Range(trace)
        /\ "s3_start" \notin Range(trace)
        /\ exit_code # Some(0)

\* ------------------------------------------------- claims on clean_data.py
\* c_df is what remove_duplicates, sort_data, validate_data returned, or
\* what a later step made of it.
Deduped ==
    cpc \in { "sort", "missing", "validate", "metadata", "stats", "save", "done" }
Sorted == cpc \in { "missing", "validate", "metadata", "stats", "save", "done" }
Validated == cpc \in { "metadata", "stats", "save", "done" }

\* The rows of the raw file the run loaded.
RawInput == IF raw_file = NoFile THEN <<>> ELSE raw_file[1]

UniqueKeys(d) ==
    \A i, j \in DOMAIN d :
        (d[i].Date = d[j].Date /\ d[i].Ticker = d[j].Ticker) => i = j

\* C11: in the dataset the cleaning sequence produces (from the output of
\* remove_duplicates to the master file written at the end) no two rows
\* share a (Date, Ticker) pair, whatever the raw file holds.
C11_UniqueKeys ==
    /\ Deduped => UniqueKeys(c_df)
    /\ master_file # NoFile => UniqueKeys(master_file[1])

\* A raw file of two rows with one key was cleaned to one row and saved.
C11_Witness ==
    /\ cpc = "done"
    /\ Len(RawInput) = 2
    /\ ~UniqueKeys(RawInput)
    /\ Len(c_df) = 1
    /\ master_file = File(c_df)

\* C12: remove_duplicates is idempotent: applied to its own output it
\* returns the same rows, hence the same row count.
C12_DedupeIdempotent ==
    cpc = "sort" =>
        /\ c_df = DropDuplicates(prev)
        /\ DropDuplicates(c_df) = c_df
        /\ Len(DropDuplicates(c_df)) = Len(c_df)

\* remove_duplicates has just removed a row.
C12_Witness ==
    /\ cpc = "sort"
    /\ Len(prev) = 2
    /\ Len(c_df) = 1

Ascending(d) ==
    \A i, j \in DOMAIN d :
        i < j => \/ Rank(d[i].Ticker) < Rank(d[j].Ticker)
                 \/ d[i].Ticker = d[j].Ticker /\ d[i].Date <= d[j].Date

\* C13: from sort_data on, through missing-value repair, validation and
\* enrichment to the master file, the rows are in ascending (Ticker, Date)
\* order.
C13_SortedOutput ==
    /\ Sorted => Ascending(c_df)
    /\ master_file # NoFile => Ascending(master_file[1])

\* A raw file whose two rows arrive in descending order was cleaned and
\* saved with both rows.
C13_Witness ==
    /\ cpc = "done"
    /\ Len(RawInput) = 2
    /\ ~Ascending(RawInput)
    /\ Len(c_df) = 2
    /\ master_file = File(c_df)

\* The row of frame d with the key of row r.
RowOf(d, r) ==
    d[CHOOSE i \in DOMAIN d : d[i].Date = r.Date /\ d[i].Ticker = r.Ticker]

\* The rows of d at an earlier date of r's ticker whose col cell is not null.
EarlierValued(d, r, col) ==
    { q \in Range(d) : q.Ticker = r.Ticker /\ q.Date < r.Date /\ q[col] # None }

\* C14: in the frame handle_missing_values returns, a price cell that was
\* not null is unchanged, and a cell that was null holds the value of that
\* column at the latest earlier date of the same ticker where it is not
\* null; with no such date it stays null.  No value of a later date or of
\* another ticker is used.
C14_NoLookAhead ==
    cpc = "validate" =>
        \A j \in DOMAIN c_df, col \in Range(PriceCols) :
            LET p == RowOf(prev, c_df[j])
                src == EarlierValued(prev, p, col)
            IN  IF p[col] # None THEN c_df[j][col] = p[col]
                ELSE IF src = {} THEN c_df[j][col] = None
                ELSE \E q \in src :
                       /\ \A q2 \in src : q2.Date <= q.Date
                       /\ c_df[j][col] = q[col]

\* A null close at the second date of a ticker was filled with the close of
\* its first date.
C14_Witness ==
    /\ cpc = "validate"
    /\ Len(prev) = 2 /\ Len(c_df) = 2
    /\ prev[1].Ticker = prev[2].Ticker
    /\ prev[1].Close # None
    /\ prev[2].Close = None
    /\ c_df[2].Close = prev[1].Close

\* Every row of the frame validate_data was given whose High is below its
\* Low is in the frame it returned with High and Low exchanged and every
\* other cell as it was.
SwappedKept ==
    cpc = "metadata" =>
        \A i \in DOMAIN prev :
            Lt(prev[i].High, prev[i].Low) =>
                \E j \in DOMAIN c_df :
                    c_df[j] = [ prev[i] EXCEPT !.High = prev[i].Low,
                                               !.Low = prev[i].High ]

Zero == Some(0)

\* A row with a negative Open, High, Low or Close.
NegativePrice(r) == \E col \in Range(PriceCols) : Lt(r[col], Zero)

\* No row of d has the key and the prices of a raw row with a negative price.
NegativeRowsAbsent(d) ==
    \A r \in Range(RawInput) :
        NegativePrice(r) =>
            ~\E j \in DOMAIN d :
                /\ d[j].Date = r.Date /\ d[j].Ticker = r.Ticker
                /\ \A col \in Range(PriceCols) : d[j][col] = r[col]

\* C16 as stated: every row of the cleaned dataset has Open, High, Low,
\* Close and Volume >= 0, and no raw row with a negative price is in it.
C16_AllNonNegative ==
    Validated =>
        /\ \A j \in DOMAIN c_df :
               \A col \in Range(ValueCols) : Ge(c_df[j][col], Zero)
        /\ NegativeRowsAbsent(c_df)

\* C16, amended: every row of the cleaned dataset has Close and Volume >= 0
\* and each of Open, High and Low null or >= 0, and no raw row with a
\* negative price is in it.
C16_NoNegativeValue ==
    /\ Validated =>
         /\ \A j \in DOMAIN c_df :
                /\ Ge(c_df[j].Close, Zero)
                /\ Ge(c_df[j].Volume, Zero)
                /\ \A col \in { "Open", "High", "Low" } :
                       c_df[j][col] = None \/ c_df[j][col][1] >= 0
         /\ NegativeRowsAbsent(c_df)
    /\ master_file # NoFile => NegativeRowsAbsent(master_file[1])

\* A raw file with a row of close -1 and a row without a defect was cleaned
\* to the one row without.
C16_Witness ==
    /\ cpc = "done"
    /\ Len(RawInput) = 2
    /\ \E i \in DOMAIN RawInput : RawInput[i].Close = Some(-1)
    /\ Len(c_df) = 1
    /\ ~NegativePrice(c_df[1])
    /\ master_file = File(c_df)

\* A row whose only defect is a negative volume.
OnlyNegativeVolume(r) ==
    /\ Lt(r.Volume, Zero)
    /\ \A col \in Range(PriceCols) : Ge(r[col], Zero)
    /\ Ge(r.High, r.Low)

\* C17: a row given to validate_data whose only defect is a negative volume
\* is in the frame it returns, with Volume 0 and every other cell as it was.
C17_VolumeClamped ==
    cpc = "metadata" =>
        \A i \in DOMAIN prev :
            OnlyNegativeVolume(prev[i]) =>
                \E j \in DOMAIN c_df : c_df[j] = [ prev[i] EXCEPT !.Volume = Zero ]

\* validate_data was given a row with volume -50 and returned it with
\* volume 0.
C17_Witness ==
    /\ cpc = "metadata"
    /\ \E i \in DOMAIN prev :
         /\ prev[i].Volume = Some(-50)
         /\ OnlyNegativeVolume(prev[i])
         /\ Len(c_df) = Len(prev)
         /\ c_df[i] = [ prev[i] EXCEPT !.Volume = Zero ]

\* C18: once calculate_statistics has computed the score, retention_rate
\* and completeness are each in [0, 1] and 0 <= quality_score <= 100 (the
\* score is held in hundredths of a point).
C18_ScoreBounds ==
    cpc \in { "save", "done" } =>
        LET r == RetentionRate(quality_metrics)
            c == Completeness(quality_metrics)
        IN  /\ 0 <= r.num /\ r.num <= r.den
            /\ 0 <= c.num /\ c.num <= c.den
            /\ 0 <= quality_metrics.data_quality_score
            /\ quality_metrics.data_quality_score <= 10000

\* ------------------------------------------------------- claims on main.py
\* The stage events of a full-chain run that completes, and the event that
\* ends the chain when the stage started at the position before fails.
FullTrace == << "s1_start", "s1_ok", "s2_start", "s2_ok", "s3_start", "s3_ok" >>
FailTrace == << "", "s1_fail", "", "s2_fail", "", "s3_fail" >>
Fails == { "s1_fail", "s2_fail", "s3_fail" }

\* C19: a full-chain run executes fetch, download, clean in that order: its
\* stage events are a prefix of start 1, completed 1, start 2, completed 2,
\* start 3, completed 3 (a failure in place of a completion ends them), so
\* no stage runs twice; the fetcher, the downloader and the cleaner are put
\* to work only after their stage started and the stage before completed;
\* and main returns 0 only after all three stages completed.
C19_StageOrder ==
    stage = "all" =>
        /\ Len(trace) <= Len(FullTrace)
        /\ \A i \in DOMAIN trace :
               \/ trace[i] = FullTrace[i]
               \/ i = Len(trace) /\ trace[i] = FailTrace[i]
        /\ fpc # "idle" => Len(trace) >= 1
        /\ dpc # "none" => Len(trace) >= 3 /\ trace[2] = "s1_ok"
        /\ cpc # "none" => Len(trace) >= 5 /\ trace[4] = "s2_ok"
        /\ exit_code = Some(0) => trace = FullTrace

\* A full-chain run completed all three stages and main returned 0.
C19_Witness ==
    /\ stage = "all"
    /\ trace = FullTrace
    /\ exit_code = Some(0)
    /\ cpc = "done"
    /\ master_file = File(c_df)

\* C20: an error raised inside a stage ends the run: the failure is the
\* last stage event (no later stage is started), main has returned 1, and
\* the artifacts of the stages this run completed before are in place, as
\* those stages wrote them.
C20_ErrorStopsChain ==
    /\ (\E i \in DOMAIN trace : trace[i] \in Fails) =>
         /\ \A i \in DOMAIN trace : trace[i] \in Fails => i = Len(trace)
         /\ ppc = "idle"
         /\ exit_code = Some(1)
    /\ (ppc = "idle" /\ (fpc = "raised" \/ cpc = "raised")) =>
         trace # <<>> /\ Last(trace) \in Fails
    /\ "s1_ok" \in Range(trace) => ticker_file = File(f_result)
    /\ "s2_ok" \in Range(trace) =>
         /\ raw_file = File(combined)
         /\ report_file = File(Summary(stats))

\* A full-chain run whose stage 3 raised while loading the raw file: main
\* returned 1 with the ticker file and the raw file of stages 1 and 2 in
\* place and no master file written.
C20_Witness ==
    /\ stage = "all"
    /\ Len(trace) = 6 /\ trace[6] = "s3_fail"
    /\ exit_code = Some(1)
    /\ cpc = "raised"
    /\ ticker_file = File(f_result)
    /\ raw_file = File(combined)
    /\ master_file = NoFile

\* A stage event of this invocation.
StageRan(ev) == \E i \in DOMAIN trace : trace[i] = ev

\* C21: a stage run while its input file is absent raises a
\* FileNotFoundError whose message names the script of the prior stage
\* (fetch_tickers.py for the download stage, download_data.py for the
\* cleaning stage); the invocation ends with exit code 1 and none of the
\* stage's output files exists afterwards (the file system starts empty and
\* no file is ever removed, so an absent output is one that was not written).
C21_MissingPrerequisite ==
    /\ (StageRan("s2_start") /\ ticker_file = NoFile) =>
          /\ raised = Err("FileNotFoundError", "fetch_tickers.py")
          /\ ppc = "idle"
          /\ exit_code = Some(1)
          /\ Last(trace) = "s2_fail"
          /\ raw_file = NoFile /\ report_file = NoFile /\ failed_file = NoFile
    /\ (StageRan("s3_start") /\ raw_file = NoFile /\ cpc # "load") =>
          /\ raised = Err("FileNotFoundError", "download_data.py")
          /\ cpc = "raised"
          /\ master_file = NoFile /\ pivot_files = NoFile /\ quality_file = NoFile
          /\ ppc \in { "s3_wait", "idle" }
          /\ ppc = "idle" => (exit_code = Some(1) /\ Last(trace) = "s3_fail")

\* The cleaning stage was run after a fetch but before any download, and
\* the invocation has ended.
C21_Witness ==
    /\ stage = "clean"
    /\ ppc = "idle"
    /\ ticker_file # NoFile
    /\ raw_file = NoFile
    /\ raised = Err("FileNotFoundError", "download_data.py")
    /\ exit_code = Some(1)

\* download_all has just begun a run: no ticker of the list handled yet.
RunBegun == dpc = "loop" /\ idx = 1 /\ invoked = <<>>

\* C22: when a download_all run begins, the stats of the instance count no
\* successes and no failures and list no failed ticker, whether or not the
\* instance completed a run before.
C22_FreshStatsPerRun ==
    RunBegun =>
        /\ stats.successful = 0
        /\ stats.failed = 0
        /\ stats.failed_tickers = <<>>

\* The backoff sleeps of the latest download_ticker call, in order.
Backoffs == SelectSeq(d_log, LAMBDA e : e.ev = "backoff")

\* C23: in download_ticker every provider call of attempt n > 0 comes
\* directly after a sleep of 2^(n-1) seconds, which comes directly after
\* the errored call of attempt n-1; every sleep follows an errored call of
\* some attempt k and lasts 2^k; so the k-th sleep for a ticker lasts
\* 2^(k-1) seconds: 1, 2, 4, ...  An errored call with attempts left is
\* never the end of the log: its sleep is recorded with it.
C23_ExponentialBackoff ==
    /\ \A i \in DOMAIN d_log :
         /\ (d_log[i].ev = "call" /\ d_log[i].n > 0) =>
               /\ i >= 3
               /\ d_log[i - 1].ev = "backoff"
               /\ d_log[i - 1].n = 2 ^ (d_log[i].n - 1)
               /\ d_log[i - 2].ev = "call"
               /\ d_log[i - 2].out = "error"
               /\ d_log[i - 2].n = d_log[i].n - 1
         /\ d_log[i].ev = "backoff" =>
               /\ i >= 2
               /\ d_log[i - 1].ev = "call"
               /\ d_log[i - 1].out = "error"
               /\ d_log[i].n = 2 ^ d_log[i - 1].n
               /\ d_log[i].ticker = d_log[i - 1].ticker
         /\ (d_log[i].ev = "call" /\ d_log[i].out = "error"
               /\ d_log[i].n < max_retries - 1) =>
               /\ i < Len(d_log)
               /\ d_log[i + 1].ev = "backoff"
    /\ \A k \in DOMAIN Backoffs : Backoffs[k].n = 2 ^ (k - 1)

\* A ticker whose first two attempts errored: sleeps of 1 and 2 seconds,
\* then the third attempt.
C23_Witness ==
    /\ Len(Backoffs) = 2
    /\ Backoffs[1].n = 1
    /\ Backoffs[2].n = 2
    /\ \E i \in DOMAIN d_log : d_log[i].ev = "call" /\ d_log[i].n = 2

\* An identifier with the provider suffix taken from its end, and nothing
\* else changed.
StripEnd(t) == IF t # <<>> /\ Last(t) = NS THEN SubSeq(t, 1, Len(t) - 1) ELSE t

RECURSIVE Downloaded(_, _)
\* The tickers of ts the provider answered with data, in list order.
Downloaded(ts, as) ==
    IF ts = <<>> \/ as = <<>> THEN <<>>
    ELSE IF Head(as).kind = "data"
         THEN << Head(ts) >> \o Downloaded(Tail(ts), Tail(as))
         ELSE Downloaded(Tail(ts), Tail(as))

\* C24: every row of the frame kept for a successfully downloaded ticker
\* carries, as Ticker, the requested identifier without the ".NS" at its
\* end and otherwise unchanged.
C24_SuffixStrippedFromEnd ==
    LET done == Downloaded(invoked, answers)
    IN  \A j \in DOMAIN all_data :
          /\ j <= Len(done)
          /\ \A i \in DOMAIN all_data[j] :
               all_data[j][i].Ticker = StripEnd(done[j])

\* How many times the text ".NS" occurs in an identifier.
SuffixCount(t) == Len(SelectSeq(t, LAMBDA c : c = NS))

\* C25: the list fetch_tickers returned has the length of the raw list of
\* the source that was chosen (the last one queried), and its i-th ticker
\* is the i-th raw identifier followed by ".NS", added once whatever the raw
\* identifier holds.
C25_SuffixAppendedOnce ==
    fpc = "returned" =>
        /\ f_tickers = Last(f_log).list
        /\ Len(f_result) = Len(f_tickers)
        /\ \A i \in DOMAIN f_result :
             /\ Len(f_result[i]) = Len(f_tickers[i]) + 1
             /\ SubSeq(f_result[i], 1, Len(f_tickers[i])) = f_tickers[i]
             /\ Last(f_result[i]) = NS
             /\ SuffixCount(f_result[i]) = SuffixCount(f_tickers[i]) + 1

\* fetch_tickers returned two tickers, the second from a raw identifier
\* that already ended in ".NS".
C25_Witness ==
    /\ fpc = "returned"
    /\ f_tickers = << << "B" >>, << "A", NS >> >>
    /\ f_result = << << "B", NS >>, << "A", NS, NS >> >>

\* The positions of d whose row has the (Date, Ticker) pair of r.
Occurrences(d, r) ==
    { i \in DOMAIN d : d[i].Date = r.Date /\ d[i].Ticker = r.Ticker }

\* C26: in the frame remove_duplicates returns, every (Date, Ticker) pair
\* of its input is present once, with the content of the row at the pair's
\* last position in the input; duplicates_removed is the input row count
\* minus the output row count.
C26_LastWriteWins ==
    cpc = "sort" =>
        /\ \A i \in DOMAIN prev :
             LET last == Max(Occurrences(prev, prev[i]))
             IN  /\ Cardinality(Occurrences(c_df, prev[i])) = 1
                 /\ \E j \in DOMAIN c_df : c_df[j] = prev[last]
                 /\ \A j \in Occurrences(c_df, prev[i]) : c_df[j] = prev[last]
        /\ quality_metrics.duplicates_removed = Len(prev) - Len(c_df)

\* Two rows for the same date and ticker with different content: the second
\* is the one kept, and one duplicate is counted.
C26_Witness ==
    /\ cpc = "sort"
    /\ Len(prev) = 2
    /\ Occurrences(prev, prev[1]) = { 1, 2 }
    /\ prev[1] # prev[2]
    /\ c_df = << prev[2] >>
    /\ quality_metrics.duplicates_removed = 1

\* A row of d whose Close is null and that no earlier date of its ticker
\* in d can fill.
Unfillable(d, r) == r.Close = None /\ EarlierValued(d, r, "Close") = {}

\* C27: in the frame handle_missing_values returns no row has a null Close;
\* a row of its input is absent from it exactly when its Close was null and
\* no earlier row of the same ticker had a Close; every other row of the
\* input is present, once, and no row is added.
C27_NullCloseDropped ==
    cpc = "validate" =>
        /\ \A j \in DOMAIN c_df : c_df[j].Close # None
        /\ \A i \in DOMAIN prev :
             Cardinality(Occurrences(c_df, prev[i])) =
                 IF Unfillable(prev, prev[i]) THEN 0 ELSE 1
        /\ \A j \in DOMAIN c_df : Occurrences(prev, c_df[j]) # {}

\* A ticker whose first day has no Close and whose second day has one: the
\* first row is dropped, the second kept.
C27_Witness ==
    /\ cpc = "validate"
    /\ Len(prev) = 2
    /\ prev[1].Ticker = prev[2].Ticker
    /\ prev[1].Close = None
    /\ prev[2].Close # None
    /\ Len(c_df) = 1
    /\ c_df[1].Date = prev[2].Date

\* The close of r lies outside the range its high and low span, whichever
\* of the two is the larger (the range after any swap).
CloseOutsideRange(r) ==
    /\ r.High # None /\ r.Low # None /\ r.Close # None
    /\ LET hi == IF r.High[1] >= r.Low[1] THEN r.High[1] ELSE r.Low[1]
           lo == IF r.High[1] >= r.Low[1] THEN r.Low[1] ELSE r.High[1]
       IN  r.Close[1] > hi \/ r.Close[1] < lo

\* C28: a row given to validate_data whose close lies outside its high-low
\* range and none of whose prices is negative is in the frame validate_data
\* returns, with its open, close and volume as they were and its high and
\* low as they stand after the swap.
C28_OutOfRangeUntouched ==
    cpc = "metadata" =>
        \A i \in DOMAIN prev :
            (CloseOutsideRange(prev[i]) /\ ~NegativePrice(prev[i])) =>
                /\ Cardinality(Occurrences(c_df, prev[i])) = 1
                /\ \A j \in Occurrences(c_df, prev[i]) :
                     /\ c_df[j].Open = prev[i].Open
                     /\ c_df[j].Close = prev[i].Close
                     /\ c_df[j].Volume = prev[i].Volume
                     /\ { c_df[j].High, c_df[j].Low } = { prev[i].High, prev[i].Low }
                     /\ Ge(c_df[j].High, c_df[j].Low)

\* C29: a cleaning run over a raw file that holds at least one row never
\* raises, whatever anomalies its rows have.
C29_AnomalyNeverRaises ==
    (raw_file # NoFile /\ Len(RawInput) >= 1) => cpc # "raised"

\* C30: no step of a cleaning run changes the raw file, and a run over a
\* raw file that an earlier run has cleaned rewrites the master file, the
\* pivot files and the quality metrics with the content they already hold.
C30_RerunIdempotent ==
    [][ /\ raw_file' = raw_file
        /\ master_file # NoFile => master_file' = master_file
        /\ pivot_files # NoFile => pivot_files' = pivot_files
        /\ quality_file # NoFile => quality_file' = quality_file ]_vars

\* A second run is about to save: the outputs of the first run are on disk
\* and the run holds a computed frame and score.
C30_Witness ==
    /\ cpc = "save"
    /\ master_file # NoFile
    /\ quality_file # NoFile
    /\ Len(RawInput) = 2
    /\ Len(c_df) = 1

\* C31: validate_data removes a row only when one of its prices is
\* negative: every row given to it none of whose open, high, low and close
\* is negative (a null is not negative) is in the frame it returns,
\* whatever the other rows hold.
C31_OnlyNegativeRemoved ==
    cpc = "metadata" =>
        \A i \in DOMAIN prev :
            ~NegativePrice(prev[i]) => Occurrences(c_df, prev[i]) # {}

\* Every step of a download run leaves successful and failed as they are or
\* adds 1 to exactly one of them; the steps that add are the ends of the
\* loop iterations, and a success adds one frame to the result list.
StatsGrowByOne ==
    [][ (dpc \in { "loop", "attempt" }) =>
          ( \/ ( /\ stats'.successful = stats.successful
                 /\ stats'.failed = stats.failed
                 /\ Len(answers') = Len(answers) )
            \/ ( /\ stats'.successful = stats.successful + 1
                 /\ stats'.failed = stats.failed
                 /\ Len(answers') = Len(answers) + 1
                 /\ Len(all_data') = Len(all_data) + 1 )
            \/ ( /\ stats'.successful = stats.successful
                 /\ stats'.failed = stats.failed + 1
                 /\ Len(answers') = Len(answers) + 1
                 /\ all_data' = all_data ) ) ]_vars

\* C32: at every point of a download run, with k tickers of the list
\* processed, successful + failed = k <= total_tickers and the result list
\* holds `successful` frames.
C32_StatsCountProcessed ==
    dpc \in { "loop", "attempt", "returned" } =>
        /\ stats.successful + stats.failed = Len(answers)
        /\ Len(answers) <= stats.total_tickers
        /\ Len(all_data) = stats.successful

\* download_ticker is entered once per ticker of the list, in list order,
\* and each of its invocations makes at most max_retries provider calls.
CallsBounded ==
    /\ Len(invoked) <= Len(tickers)
    /\ invoked = SubSeq(tickers, 1, Len(invoked))
    /\ Len(Calls(d_log)) <= max_retries

\* download_all has returned: every ticker of the list was processed and
\* download_end is set.
RunEnded ==
    /\ dpc = "returned"
    /\ Len(answers) = Len(tickers)
    /\ stats.download_end = TRUE

\* C33: a download run terminates: download_ticker runs at most once per
\* ticker with at most max_retries provider calls each, so the run makes at
\* most len(tickers) * max_retries provider calls, and a run that has begun
\* reaches its return with every ticker processed and download_end set.
C33_RunTerminates ==
    /\ [](dpc \in { "loop", "attempt", "returned" } => CallsBounded)
    /\ (dpc \in { "loop", "attempt" }) ~> RunEnded

C33_Witness ==
    /\ RunEnded
    /\ Len(tickers) = MaxTickers
    /\ max_retries = MaxRetries
    /\ Len(Calls(d_log)) = MaxRetries

=============================================================================
